---------------------------- MODULE Spec2Model ----------------------------
(***************************************************************************)
(* Samsung WAM speaker controller (wam_discovery.py): the protocol client, *)
(* the speaker entity with its cached state, SSDP discovery and the        *)
(* registry/controller with its group operations; the MPD bridge's         *)
(* synchronization thread (mpd_integration.py) and the GStreamer           *)
(* streamer's table of HTTP servers (gstreamer_integration.py).            *)
(*                                                                         *)
(* Python strings that the code only compares or stores (led, mute,        *)
(* repeat, group name, hardware address, command names) are TLA+ strings.  *)
(* Strings the code computes on (names: lower(); volume text: int();       *)
(* addresses: name formatting) are sequences of one-character strings.     *)
(***************************************************************************)
EXTENDS Integers, Sequences, FiniteSets, TLC

VARIABLES
    speakers,   \* the SamsungWamSpeaker objects alive, as a sequence of records
                \* (in the controller specifications: WamController.speakers)
    http,       \* the HTTP requests issued by the most recent call, in order
    last,       \* the most recent call: its name, inputs, state before, outcome
    setDone,    \* history: a set_volume call has set the cached volume
    search,     \* the discover_speakers call in progress: its position, its
                \* socket, the datagrams not yet received, the speakers collected
    mpd,        \* the WAMMPDController: is_connected, running, sync_thread,
                \* the threads it has started and the caller's position
    streamer    \* the GStreamerAudioStreamer: active_streams and the HTTP
                \* servers it has started

vars == <<speakers, http, last, setDone, search, mpd, streamer>>

(***************************************************************************)
(* Text helpers                                                            *)
(***************************************************************************)
Digits == <<"0", "1", "2", "3", "4", "5", "6", "7", "8", "9">>

IsDigit(c) == \E i \in 1..10 : Digits[i] = c

DigitVal(c) == (CHOOSE i \in 1..10 : Digits[i] = c) - 1

IsSpace(c) == c \in {" ", "\t", "\n", "\r"}

RECURSIVE LStrip(_)
LStrip(cs) ==
    IF cs # <<>> /\ IsSpace(Head(cs)) THEN LStrip(Tail(cs)) ELSE cs

RECURSIVE RStrip(_)
RStrip(cs) ==
    IF cs # <<>> /\ IsSpace(cs[Len(cs)]) THEN RStrip(SubSeq(cs, 1, Len(cs) - 1)) ELSE cs

\* str.strip()
Strip(cs) == RStrip(LStrip(cs))

\* str(n) for an int n
RECURSIVE NatToStr(_)
NatToStr(n) ==
    IF n < 10 THEN <<Digits[n + 1]>> ELSE NatToStr(n \div 10) \o <<Digits[(n % 10) + 1]>>

IntToStr(n) == IF n < 0 THEN <<"-">> \o NatToStr(0 - n) ELSE NatToStr(n)

\* the digits of an int literal: decimal digits, single underscores between them
IntBodyOk(b) ==
    /\ b # <<>>
    /\ \A i \in 1..Len(b) :
          \/ IsDigit(b[i])
          \/ /\ b[i] = "_"
             /\ i > 1 /\ i < Len(b)
             /\ IsDigit(b[i - 1]) /\ IsDigit(b[i + 1])

RECURSIVE IntBodyVal(_, _)
IntBodyVal(b, acc) ==
    IF b = <<>> THEN acc
    ELSE IF Head(b) = "_" THEN IntBodyVal(Tail(b), acc)
    ELSE IntBodyVal(Tail(b), 10 * acc + DigitVal(Head(b)))

(***************************************************************************)
(* JSON values of a device reply                                           *)
(*   t = "str":   a string (payload cs for text the code computes on,      *)
(*                s for text the code only stores)                         *)
(*   t = "int":   a number n                                               *)
(*   t = "null":  null                                                     *)
(*   t = "cdata": an object holding "#cdata-section" (payload cs or s)     *)
(*   t = "dict":  an object without "#cdata-section"                       *)
(***************************************************************************)
JNull == [t |-> "null", s |-> "", cs |-> <<>>, n |-> 0]

JStr(cs) == [t |-> "str", s |-> "", cs |-> cs, n |-> 0]

JTok(s) == [t |-> "str", s |-> s, cs |-> <<>>, n |-> 0]

JInt(n) == [t |-> "int", s |-> "", cs |-> <<>>, n |-> n]

JCdata(cs) == [t |-> "cdata", s |-> "", cs |-> cs, n |-> 0]

JCdataTok(s) == [t |-> "cdata", s |-> s, cs |-> <<>>, n |-> 0]

JDict == [t |-> "dict", s |-> "", cs |-> <<>>, n |-> 0]

\* Python's int(x): the value, or the exception it raises
py_int(x) ==
    IF x.t = "int" THEN [exc |-> "", n |-> x.n]
    ELSE IF x.t = "str" THEN
        LET st == Strip(x.cs)
            signed == st # <<>> /\ Head(st) \in {"+", "-"}
            body == IF signed THEN Tail(st) ELSE st
        IN  IF IntBodyOk(body)
            THEN [exc |-> "", n |-> IF signed /\ Head(st) = "-"
                                    THEN 0 - IntBodyVal(body, 0)
                                    ELSE IntBodyVal(body, 0)]
            ELSE [exc |-> "ValueError", n |-> 0]
    ELSE [exc |-> "TypeError", n |-> 0]

(***************************************************************************)
(* Protocol client                                                         *)
(***************************************************************************)
Port == 55001

\* What _send_command returns.  k = "none": None; "falsy": a JSON value that
\* is false in a condition ({}, [], 0, "", false); "raw": {"raw_response":
\* text}; "other": a non-empty JSON object without "UIC"; "uic": {"UIC":
\* {"response": {...}}}, where has says whether the queried field is in the
\* response object and v is its value.
ResNone == [k |-> "none", has |-> FALSE, v |-> JNull]

ResFalsy == [k |-> "falsy", has |-> FALSE, v |-> JNull]

ResRaw == [k |-> "raw", has |-> FALSE, v |-> JNull]

ResOther == [k |-> "other", has |-> FALSE, v |-> JNull]

ResUicAbsent == [k |-> "uic", has |-> FALSE, v |-> JNull]

ResUic(v) == [k |-> "uic", has |-> TRUE, v |-> v]

\* The outcome of requests.get: a RequestException (timeout, connection
\* refused, resolution failure), or a response with a status and a body that
\* parses as JSON (to json) or does not.
NetExc == [tr |-> "exc", status |-> 0, parses |-> FALSE, json |-> ResNone]

NetStatus(code) == [tr |-> "http", status |-> code, parses |-> FALSE, json |-> ResNone]

NetText == [tr |-> "http", status |-> 200, parses |-> FALSE, json |-> ResNone]

NetJson(j) == [tr |-> "http", status |-> 200, parses |-> TRUE, json |-> j]

_send_command(net) ==
    IF net.tr = "exc" THEN ResNone
    ELSE IF net.status = 200
         THEN IF net.parses THEN net.json ELSE ResRaw
         ELSE ResNone

\* `if response:`
Truthy(r) == r.k \in {"raw", "other", "uic"}

\* `if resp and 'UIC' in resp and 'response' in resp['UIC']:`
HasResponse(r) == Truthy(r) /\ r.k = "uic"

\* One parameter element of a command, <p type=.. name=.. val=../>
Param(type, name, s, cs) == [type |-> type, name |-> name, s |-> s, cs |-> cs]

\* The request _send_command issues: GET http://ip:port/UIC?cmd=<name>..
Request(s, name, params) ==
    [ip |-> s.ip_address, port |-> s.port, name |-> name, params |-> params]

(***************************************************************************)
(* Speaker entity                                                          *)
(***************************************************************************)
VolMin == 0

VolMax == 30

DefaultVolume == 10

Max(a, b) == IF a >= b THEN a ELSE b

Min(a, b) == IF a <= b THEN a ELSE b

SamsungWamSpeaker(ip, name, led, mute, volume, group_name, repeat, mac) ==
    [ip_address |-> ip, name |-> name, led |-> led, mute |-> mute,
     volume |-> volume, group_name |-> group_name, repeat |-> repeat,
     mac |-> mac, port |-> Port]

\* SamsungWamSpeaker(ip_address=ip): the constructor's defaults
NewSpeaker(ip) == SamsungWamSpeaker(ip, <<>>, "off", "off", DefaultVolume, "", "off", "")

\* The outcome of a method call: the object afterwards, the requests issued,
\* the value returned and the exception raised ("" when it returns).
Outcome(s, reqs, ret, exc) == [spk |-> s, reqs |-> reqs, ret |-> ret, exc |-> exc]

set_volume_unclamped(s, vol_level, net) ==
    LET response == _send_command(net)
    IN  Outcome(IF Truthy(response) THEN [s EXCEPT !.volume = vol_level] ELSE s,
                <<Request(s, "SetVolume",
                          <<Param("dec", "volume", "", IntToStr(vol_level))>>)>>,
                response, "")

set_volume(s, vol_level, net) ==
    LET clamped == Max(VolMin, Min(VolMax, vol_level))
        response == _send_command(net)
    IN  Outcome(IF Truthy(response) THEN [s EXCEPT !.volume = clamped] ELSE s,
                <<Request(s, "SetVolume",
                          <<Param("dec", "volume", "", IntToStr(clamped))>>)>>,
                response, "")

get_volume(s, net) ==
    LET resp == _send_command(net)
        req == <<Request(s, "GetVolume", <<>>)>>
    IN  IF HasResponse(resp)
        THEN LET vol == IF resp.has THEN resp.v ELSE JStr(IntToStr(s.volume))
                 parsed == py_int(vol)
             IN  IF parsed.exc = ""
                 THEN Outcome([s EXCEPT !.volume = parsed.n], req, JInt(parsed.n), "")
                 ELSE IF parsed.exc = "ValueError"
                      THEN Outcome(s, req, JInt(s.volume), "")
                      ELSE Outcome(s, req, JNull, parsed.exc)
        ELSE Outcome(s, req, JInt(s.volume), "")

set_mute_unchecked(s, choice, net) ==
    LET response == _send_command(net)
    IN  Outcome(IF Truthy(response) THEN [s EXCEPT !.mute = choice] ELSE s,
                <<Request(s, "SetMute", <<Param("str", "mute", choice, <<>>)>>)>>,
                response, "")

set_mute(s, choice, net) ==
    IF choice \notin {"on", "off"}
    THEN Outcome(s, <<>>, ResNone, "ValueError")
    ELSE LET response == _send_command(net)
         IN  Outcome(IF Truthy(response) THEN [s EXCEPT !.mute = choice] ELSE s,
                     <<Request(s, "SetMute", <<Param("str", "mute", choice, <<>>)>>)>>,
                     response, "")

get_mute(s, net) ==
    LET resp == _send_command(net)
        req == <<Request(s, "GetMute", <<>>)>>
    IN  IF HasResponse(resp)
        THEN LET mute_status == IF resp.has THEN resp.v.s ELSE s.mute
             IN  Outcome([s EXCEPT !.mute = mute_status], req, JTok(mute_status), "")
        ELSE Outcome(s, req, JTok(s.mute), "")

set_repeat_mode(s, mode, net) ==
    IF mode \notin {"off", "all", "one"}
    THEN Outcome(s, <<>>, ResNone, "ValueError")
    ELSE LET response == _send_command(net)
         IN  Outcome(IF Truthy(response) THEN [s EXCEPT !.repeat = mode] ELSE s,
                     <<Request(s, "SetRepeatMode",
                               <<Param("str", "repeatmode", mode, <<>>)>>)>>,
                     response, "")

set_led(s, choice, net) ==
    IF choice \notin {"on", "off"}
    THEN Outcome(s, <<>>, ResNone, "ValueError")
    ELSE LET response == _send_command(net)
         IN  Outcome(IF Truthy(response) THEN [s EXCEPT !.led = choice] ELSE s,
                     <<Request(s, "SetLed", <<Param("str", "option", choice, <<>>)>>)>>,
                     response, "")

\* The command of the five playback controls, with its literal value
PlaybackControl(s, val, net) ==
    Outcome(s, <<Request(s, "SetPlaybackControl",
                         <<Param("str", "playbackcontrol", val, <<>>)>>)>>,
            _send_command(net), "")

play(s, net) == PlaybackControl(s, "play", net)

pause_retrying(s, net) ==
    LET once == PlaybackControl(s, "pause", net)
    IN  IF Truthy(once.ret) THEN once
        ELSE Outcome(s, once.reqs \o once.reqs, once.ret, "")

pause(s, net) == PlaybackControl(s, "pause", net)

resume(s, net) == PlaybackControl(s, "resume", net)

next_track(s, net) == PlaybackControl(s, "next", net)

previous_track(s, net) == PlaybackControl(s, "previous", net)

\* f"eqvalue{i+1}" for the i-th of the values, counted from 0
EqValueName(i) == "eqvalue" \o ToString(i + 1)

\* The parameters of the command: the preset index, then one per value
EqParams(preset_idx, eq_values) ==
    <<Param("dec", "presetindex", "", IntToStr(preset_idx))>>
        \o [k \in 1..Len(eq_values) |->
               Param("dec", EqValueName(k - 1), "", IntToStr(eq_values[k]))]

set_7band_eq_value_unchecked(s, preset_idx, eq_values, net) ==
    Outcome(s, <<Request(s, "Set7bandEQValue", EqParams(preset_idx, eq_values))>>,
            _send_command(net), "")

set_7band_eq_value(s, preset_idx, eq_values, net) ==
    IF Len(eq_values) # 7
    THEN Outcome(s, <<>>, ResNone, "ValueError")
    ELSE Outcome(s, <<Request(s, "Set7bandEQValue", EqParams(preset_idx, eq_values))>>,
                 _send_command(net), "")

\* The fields refresh() fetches, in its order
RefreshFields == <<"name", "led", "mute", "volume", "group", "repeat">>

RefreshCommand(f) ==
    CASE f = "name" -> "GetSpkName"
      [] f = "led" -> "GetLed"
      [] f = "mute" -> "GetMute"
      [] f = "volume" -> "GetVolume"
      [] f = "group" -> "GetGroupName"
      [] f = "repeat" -> "GetRepeatMode"

\* One field of refresh() given the result resp of its query: the object
\* afterwards and the exception the statements raise ("" when none).
\* x.get('#cdata-section', default) needs x to be an object; int(vol) raises
\* ValueError (handled in place) or TypeError.
RefreshField(s, f, resp) ==
    IF ~HasResponse(resp) THEN [spk |-> s, exc |-> ""]
    ELSE CASE f = "name" ->
                LET x == IF resp.has THEN resp.v ELSE JDict
                IN  IF x.t = "cdata" THEN [spk |-> [s EXCEPT !.name = x.cs], exc |-> ""]
                    ELSE IF x.t = "dict" THEN [spk |-> s, exc |-> ""]
                    ELSE [spk |-> s, exc |-> "AttributeError"]
           [] f = "led" ->
                [spk |-> [s EXCEPT !.led = IF resp.has THEN resp.v.s ELSE s.led],
                 exc |-> ""]
           [] f = "mute" ->
                [spk |-> [s EXCEPT !.mute = IF resp.has THEN resp.v.s ELSE s.mute],
                 exc |-> ""]
           [] f = "volume" ->
                LET vol == IF resp.has THEN resp.v ELSE JStr(IntToStr(s.volume))
                    parsed == py_int(vol)
                IN  IF parsed.exc = "" THEN [spk |-> [s EXCEPT !.volume = parsed.n], exc |-> ""]
                    ELSE IF parsed.exc = "ValueError" THEN [spk |-> s, exc |-> ""]
                    ELSE [spk |-> s, exc |-> parsed.exc]
           [] f = "group" ->
                LET x == IF resp.has THEN resp.v ELSE JDict
                IN  IF x.t = "cdata" THEN [spk |-> [s EXCEPT !.group_name = x.s], exc |-> ""]
                    ELSE IF x.t = "dict" THEN [spk |-> s, exc |-> ""]
                    ELSE [spk |-> s, exc |-> "AttributeError"]
           [] f = "repeat" ->
                [spk |-> [s EXCEPT !.repeat = IF resp.has THEN resp.v.s ELSE s.repeat],
                 exc |-> ""]

\* refresh() from its k-th field on: the body of the try block.  An exception
\* leaves the block: the fields after it are neither fetched nor updated.
RECURSIVE RefreshFrom(_, _, _, _)
RefreshFrom(s, k, nets, reqs) ==
    IF k > Len(RefreshFields) THEN [spk |-> s, reqs |-> reqs, exc |-> ""]
    ELSE LET f == RefreshFields[k]
             step == RefreshField(s, f, _send_command(nets[f]))
             sent == Append(reqs, Request(s, RefreshCommand(f), <<>>))
         IN  IF step.exc # "" THEN [spk |-> step.spk, reqs |-> sent, exc |-> step.exc]
             ELSE RefreshFrom(step.spk, k + 1, nets, sent)

\* refresh(): `except Exception` prints the error and the call returns None;
\* ret holds the name of the exception it printed ("" when none).
refresh(s, nets) ==
    LET r == RefreshFrom(s, 1, nets, <<>>)
    IN  Outcome(r.spk, r.reqs, JTok(r.exc), "")

ungroup(s, net) ==
    LET response == _send_command(net)
    IN  Outcome(IF Truthy(response) THEN [s EXCEPT !.group_name = ""] ELSE s,
                <<Request(s, "SetUngroup", <<>>)>>, response, "")

ZeroMac == "00:00:00:00:00:00"

\* `for speaker in [self] + other_speakers: speaker.ungroup()` over the
\* objects objs[idxs[1]], objs[idxs[2]], ...; nets[k] is the outcome of the
\* k-th request.
RECURSIVE UngroupEach(_, _, _, _)
UngroupEach(objs, idxs, nets, reqs) ==
    IF idxs = <<>> THEN [objs |-> objs, reqs |-> reqs]
    ELSE LET out == ungroup(objs[Head(idxs)], Head(nets))
         IN  UngroupEach([objs EXCEPT ![Head(idxs)] = out.spk], Tail(idxs),
                         Tail(nets), reqs \o out.reqs)

RECURSIVE UngroupEach_stopping(_, _, _, _)
UngroupEach_stopping(objs, idxs, nets, reqs) ==
    IF idxs = <<>> THEN [objs |-> objs, reqs |-> reqs]
    ELSE LET out == ungroup(objs[Head(idxs)], Head(nets))
         IN  IF ~Truthy(out.ret) THEN [objs |-> objs, reqs |-> reqs \o out.reqs]
             ELSE UngroupEach_stopping([objs EXCEPT ![Head(idxs)] = out.spk],
                                       Tail(idxs), Tail(nets), reqs \o out.reqs)

RECURSIVE UngroupGrouped(_, _, _, _)
UngroupGrouped(objs, idxs, nets, reqs) ==
    IF idxs = <<>> THEN [objs |-> objs, reqs |-> reqs]
    ELSE IF objs[Head(idxs)].group_name = ""
         THEN UngroupGrouped(objs, Tail(idxs), Tail(nets), reqs)
         ELSE LET out == ungroup(objs[Head(idxs)], Head(nets))
              IN  UngroupGrouped([objs EXCEPT ![Head(idxs)] = out.spk], Tail(idxs),
                                 Tail(nets), reqs \o out.reqs)

\* The SetMultispkGroup command of objs[self] for the sub-speakers others
GroupCommand(objs, self, group_name, others) ==
    Request(objs[self], "SetMultispkGroup",
        << Param("cdata", "name", group_name, <<>>),
           Param("dec", "index", "", IntToStr(1)),
           Param("str", "type", "main", <<>>),
           Param("dec", "spknum", "", IntToStr(Len(<<self>> \o others))),
           Param("str", "audiosourcemacaddr",
                 IF objs[self].mac # "" THEN objs[self].mac ELSE ZeroMac, <<>>),
           Param("cdata", "audiosourcename", "", objs[self].name),
           Param("str", "audiosourcetype", "speaker", <<>>) >>
        \o [k \in 1..(2 * Len(others)) |->
              IF k % 2 = 1
              THEN Param("str", "subspkip", "", objs[others[(k + 1) \div 2]].ip_address)
              ELSE Param("str", "subspkmacaddr",
                         IF objs[others[k \div 2]].mac # ""
                         THEN objs[others[k \div 2]].mac ELSE ZeroMac, <<>>)])

\* objs[self].group_with_speakers(group_name, [objs[i] for i in others]);
\* nets holds the outcome of each request in the order they are issued.
group_with_speakers_lazy(objs, self, group_name, others, nets) ==
    LET u == UngroupGrouped(objs, <<self>> \o others, nets, <<>>)
        response == _send_command(nets[Len(nets)])
    IN  [objs |-> IF Truthy(response)
                  THEN [u.objs EXCEPT ![self].group_name = group_name]
                  ELSE u.objs,
         reqs |-> Append(u.reqs, GroupCommand(u.objs, self, group_name, others)),
         ret |-> response]

group_with_speakers_stopping(objs, self, group_name, others, nets) ==
    LET u == UngroupEach_stopping(objs, <<self>> \o others, nets, <<>>)
        response == _send_command(nets[Len(nets)])
    IN  [objs |-> IF Truthy(response)
                  THEN [u.objs EXCEPT ![self].group_name = group_name]
                  ELSE u.objs,
         reqs |-> Append(u.reqs, GroupCommand(u.objs, self, group_name, others)),
         ret |-> response]

group_with_speakers_marking_subs(objs, self, group_name, others, nets) ==
    LET u == UngroupEach(objs, <<self>> \o others, nets, <<>>)
        response == _send_command(nets[Len(nets)])
        member(i) == i = self \/ \E k \in 1..Len(others) : others[k] = i
    IN  [objs |-> IF Truthy(response)
                  THEN [i \in 1..Len(objs) |->
                           IF member(i) THEN [u.objs[i] EXCEPT !.group_name = group_name]
                           ELSE u.objs[i]]
                  ELSE u.objs,
         reqs |-> Append(u.reqs, GroupCommand(u.objs, self, group_name, others)),
         ret |-> response]

group_with_speakers(objs, self, group_name, others, nets) ==
    LET u == UngroupEach(objs, <<self>> \o others, nets, <<>>)
        response == _send_command(nets[Len(nets)])
    IN  [objs |-> IF Truthy(response)
                  THEN [u.objs EXCEPT ![self].group_name = group_name]
                  ELSE u.objs,
         reqs |-> Append(u.reqs, GroupCommand(u.objs, self, group_name, others)),
         ret |-> response]

(***************************************************************************)
(* Registry / controller                                                   *)
(***************************************************************************)
UpperCase ==
    <<"A", "B", "C", "D", "E", "F", "G", "H", "I", "J", "K", "L", "M",
      "N", "O", "P", "Q", "R", "S", "T", "U", "V", "W", "X", "Y", "Z">>

LowerCase ==
    <<"a", "b", "c", "d", "e", "f", "g", "h", "i", "j", "k", "l", "m",
      "n", "o", "p", "q", "r", "s", "t", "u", "v", "w", "x", "y", "z">>

\* str.lower()
lower(cs) ==
    [i \in 1..Len(cs) |->
        IF \E k \in 1..26 : UpperCase[k] = cs[i]
        THEN LowerCase[CHOOSE k \in 1..26 : UpperCase[k] = cs[i]]
        ELSE cs[i]]

\* The value None where a name is expected (a JSON null in the persisted
\* list or in a device reply): a one-element sequence whose element is not a
\* character.  None has no lower().
NoneName == <<"None">>

\* `for speaker in self.speakers: if speaker.name.lower() == name.lower()`
\* from the i-th speaker on
RECURSIVE NameLookupFrom(_, _, _)
NameLookupFrom(objs, name, i) ==
    IF i > Len(objs) THEN 0
    ELSE IF objs[i].name = NoneName THEN -1
    ELSE IF lower(objs[i].name) = lower(name) THEN i
    ELSE NameLookupFrom(objs, name, i + 1)

\* The index in the working set of the speaker get_speaker_by_name returns,
\* 0 for None, -1 when it raises AttributeError
get_speaker_by_name(objs, name) == NameLookupFrom(objs, name, 1)

\* The index in the working set of the speaker get_speaker_by_ip returns, 0
\* for None
get_speaker_by_ip(objs, ip) ==
    LET hit(i) == objs[i].ip_address = ip
    IN  IF \E i \in 1..Len(objs) : hit(i)
        THEN CHOOSE i \in 1..Len(objs) : hit(i) /\ \A j \in 1..(i - 1) : ~hit(j)
        ELSE 0

\* The loop of create_group over speaker_names: main_speaker (0 for None)
\* and group_speakers, or the exception of a lookup
RECURSIVE ResolveNames(_, _, _, _)
ResolveNames(objs, names, main_speaker, group_speakers) ==
    IF names = <<>>
    THEN [main |-> main_speaker, subs |-> group_speakers, exc |-> ""]
    ELSE LET speaker == get_speaker_by_name(objs, Head(names))
         IN  IF speaker = -1
             THEN [main |-> main_speaker, subs |-> group_speakers,
                   exc |-> "AttributeError"]
             ELSE IF speaker # 0
             THEN IF main_speaker = 0
                  THEN ResolveNames(objs, Tail(names), speaker, group_speakers)
                  ELSE ResolveNames(objs, Tail(names), main_speaker,
                                    Append(group_speakers, speaker))
             ELSE ResolveNames(objs, Tail(names), main_speaker, group_speakers)

\* The requests create_group issues for these names: one ungroup per
\* participant and the group command, or none when it returns early
RequestsNeeded(objs, speaker_names) ==
    LET r == ResolveNames(objs, speaker_names, 0, <<>>)
    IN  IF Len(speaker_names) < 2 \/ r.exc # "" \/ r.main = 0 \/ r.subs = <<>>
        THEN 0
        ELSE Len(r.subs) + 2

NoGroup(objs) == [objs |-> objs, reqs |-> <<>>, ret |-> ResNone, exc |-> ""]

\* main_speaker.group_with_speakers(group_name, group_speakers) in create_group
GroupResolved(objs, r, group_name, nets) ==
    LET g == group_with_speakers(objs, r.main, group_name, r.subs, nets)
    IN  [objs |-> g.objs, reqs |-> g.reqs, ret |-> g.ret, exc |-> ""]

create_group_unchecked(objs, group_name, speaker_names, nets) ==
    LET r == ResolveNames(objs, speaker_names, 0, <<>>)
    IN  IF r.main = 0 THEN NoGroup(objs)
        ELSE GroupResolved(objs, r, group_name,
                 [k \in 1..(Len(r.subs) + 2) |-> NetText])

create_group_strict(objs, group_name, speaker_names, nets) ==
    LET r == ResolveNames(objs, speaker_names, 0, <<>>)
    IN  IF Len(speaker_names) < 2 THEN NoGroup(objs)
        ELSE IF \E k \in 1..Len(speaker_names) :
                    get_speaker_by_name(objs, speaker_names[k]) = 0
             THEN NoGroup(objs)
             ELSE IF r.main = 0 THEN NoGroup(objs)
                  ELSE IF Len(r.subs) = 0 THEN NoGroup(objs)
                       ELSE GroupResolved(objs, r, group_name, nets)

create_group(objs, group_name, speaker_names, nets) ==
    LET r == ResolveNames(objs, speaker_names, 0, <<>>)
    IN  IF Len(speaker_names) < 2 THEN NoGroup(objs)
        ELSE IF r.exc # "" THEN [NoGroup(objs) EXCEPT !.exc = r.exc]
        ELSE IF r.main = 0 THEN NoGroup(objs)
             ELSE IF Len(r.subs) = 0 THEN NoGroup(objs)
                  ELSE GroupResolved(objs, r, group_name, nets)

\* ungroup_all() from the k-th speaker of the working set on; nets[k] is the
\* outcome of the request to the k-th speaker, should one be sent
RECURSIVE UngroupAllFrom(_, _, _, _)
UngroupAllFrom(objs, k, nets, reqs) ==
    IF k > Len(objs) THEN [objs |-> objs, reqs |-> reqs, ret |-> ResNone]
    ELSE IF objs[k].group_name # ""
         THEN LET out == ungroup(objs[k], nets[k])
              IN  UngroupAllFrom([objs EXCEPT ![k] = out.spk], k + 1, nets,
                                 reqs \o out.reqs)
         ELSE UngroupAllFrom(objs, k + 1, nets, reqs)

ungroup_all_every(objs, nets) ==
    LET u == UngroupEach(objs, [k \in 1..Len(objs) |-> k], nets, <<>>)
    IN  [objs |-> u.objs, reqs |-> u.reqs, ret |-> ResNone]

ungroup_all_forget(objs, nets) ==
    [objs |-> [k \in 1..Len(objs) |-> [objs[k] EXCEPT !.group_name = ""]],
     reqs |-> <<>>, ret |-> ResNone]

ungroup_all(objs, nets) == UngroupAllFrom(objs, 1, nets, <<>>)

(***************************************************************************)
(* Discovery service and the persisted device list                         *)
(***************************************************************************)
\* f"Samsung Speaker at {ip}"
FallbackName(ip) ==
    <<"S", "a", "m", "s", "u", "n", "g", " ", "S", "p", "e", "a", "k", "e", "r",
      " ", "a", "t", " ">> \o ip

\* The name discover_speakers gives the speaker at ip from the result of its
\* GetSpkName query: the reported name when there is one and it is not empty,
\* the fallback name otherwise (also when reading the reply raises).
DiscoveredName(ip, resp) ==
    IF HasResponse(resp)
    THEN LET x == IF resp.has THEN resp.v ELSE JDict
             name == IF x.t = "cdata" THEN x.cs ELSE <<>>
         IN  IF x.t \in {"cdata", "dict"} /\ name # <<>> THEN name ELSE FallbackName(ip)
    ELSE FallbackName(ip)

Known(found, ip) == \E i \in 1..Len(found) : found[i].ip_address = ip

\* The receive loop of discover_speakers.  dgrams are the datagrams the
\* socket delivers before its receive times out or fails: each has the
\* sender's address addr, a payload that is text holding the search target
\* ("match"), other text ("other") or bytes that are not UTF-8
\* ("undecodable"), and the outcome net of the name query sent to the sender.
RECURSIVE ReceiveAll(_, _, _)
ReceiveAll(dgrams, found, reqs) ==
    IF dgrams = <<>> THEN [speakers |-> found, reqs |-> reqs]
    ELSE LET d == Head(dgrams)
         IN  IF d.kind = "undecodable" THEN [speakers |-> found, reqs |-> reqs]
             ELSE IF d.kind = "other" THEN ReceiveAll(Tail(dgrams), found, reqs)
             ELSE LET speaker == [NewSpeaker(d.addr) EXCEPT
                                     !.name = DiscoveredName(d.addr, _send_command(d.net))]
                      sent == Append(reqs, Request(speaker, "GetSpkName", <<>>))
                  IN  ReceiveAll(Tail(dgrams),
                                 IF Known(found, d.addr) THEN found
                                 ELSE Append(found, speaker),
                                 sent)

RECURSIVE ReceiveAllKeepAll(_, _, _)
ReceiveAllKeepAll(dgrams, found, reqs) ==
    IF dgrams = <<>> THEN [speakers |-> found, reqs |-> reqs]
    ELSE LET d == Head(dgrams)
         IN  IF d.kind = "undecodable" THEN [speakers |-> found, reqs |-> reqs]
             ELSE IF d.kind = "other" THEN ReceiveAllKeepAll(Tail(dgrams), found, reqs)
             ELSE LET speaker == [NewSpeaker(d.addr) EXCEPT
                                     !.name = DiscoveredName(d.addr, _send_command(d.net))]
                      sent == Append(reqs, Request(speaker, "GetSpkName", <<>>))
                  IN  ReceiveAllKeepAll(Tail(dgrams), Append(found, speaker), sent)

\* discover_speakers(): sock.send_ok says whether sendto succeeds; a failed
\* send, a failed receive and the receive timeout all end with the speakers
\* collected so far.
discover_speakers_keep_all(sock) ==
    IF sock.send_ok THEN ReceiveAllKeepAll(sock.dgrams, <<>>, <<>>)
    ELSE [speakers |-> <<>>, reqs |-> <<>>]

discover_speakers(sock) ==
    IF sock.send_ok THEN ReceiveAll(sock.dgrams, <<>>, <<>>)
    ELSE [speakers |-> <<>>, reqs |-> <<>>]

\* load_speakers_from_config: file.state is "missing", "invalid" (not JSON)
\* or "ok" with file.records the list of records
load_speakers_from_config(file) ==
    IF file.state = "ok"
    THEN [k \in 1..Len(file.records) |->
            SamsungWamSpeaker(file.records[k].IPAddress, file.records[k].Name,
                              file.records[k].LED, file.records[k].Mute,
                              file.records[k].Volume, file.records[k].GroupName,
                              file.records[k].Repeat, file.records[k].MAC)]
    ELSE <<>>

\* The record save_speakers_to_config writes for one speaker
SavedRecord(s) ==
    [IPAddress |-> s.ip_address, Name |-> s.name, LED |-> s.led, Mute |-> s.mute,
     Volume |-> s.volume, GroupName |-> s.group_name, Repeat |-> s.repeat,
     MAC |-> s.mac]

save_speakers_without_mac(list, file, writable) ==
    IF writable
    THEN [state |-> "ok",
          records |-> [k \in 1..Len(list) |-> [SavedRecord(list[k]) EXCEPT !.MAC = ""]]]
    ELSE file

\* save_speakers_to_config: the file afterwards.  When the file cannot be
\* opened for writing the error is printed and the file is as it was.
save_speakers_to_config(list, file, writable) ==
    IF writable
    THEN [state |-> "ok", records |-> [k \in 1..Len(list) |-> SavedRecord(list[k])]]
    ELSE file

\* `for speaker in ...: if speaker.ip_address not in seen_ips: ...`
RECURSIVE KeepFirstPerAddress(_, _)
KeepFirstPerAddress(list, all_speakers) ==
    IF list = <<>> THEN all_speakers
    ELSE KeepFirstPerAddress(Tail(list),
             IF Known(all_speakers, Head(list).ip_address) THEN all_speakers
             ELSE Append(all_speakers, Head(list)))

\* WamController.discover(): the new working set, with the two lists it was
\* built from
discover_persisted_first(sock, file) ==
    LET d == discover_speakers(sock)
        config_speakers == load_speakers_from_config(file)
    IN  [objs |-> KeepFirstPerAddress(config_speakers \o d.speakers, <<>>),
         reqs |-> d.reqs,
         discovered |-> d.speakers, config |-> config_speakers]

discover(sock, file) ==
    LET d == discover_speakers(sock)
        config_speakers == load_speakers_from_config(file)
    IN  [objs |-> KeepFirstPerAddress(d.speakers \o config_speakers, <<>>),
         reqs |-> d.reqs,
         discovered |-> d.speakers, config |-> config_speakers]

(***************************************************************************)
(* Calls on one speaker object: the state after the call, the requests it  *)
(* issued and a record of the call                                         *)
(***************************************************************************)
\* speakers[i].<method>(...) with outcome out; call holds the method's name
\* and inputs
Call(i, call, out) ==
    /\ speakers' = [speakers EXCEPT ![i] = out.spk]
    /\ http' = out.reqs
    /\ last' = [call |-> call, pre |-> speakers[i], ret |-> out.ret, exc |-> out.exc]
    /\ setDone' = (setDone \/ (call.op = "set_volume" /\ Truthy(out.ret)))
    /\ UNCHANGED <<search, mpd, streamer>>

SetVolume(i, v, net) ==
    Call(i, [op |-> "set_volume", vol_level |-> v, net |-> net],
         set_volume(speakers[i], v, net))

GetVolume(i, net) ==
    Call(i, [op |-> "get_volume", net |-> net], get_volume(speakers[i], net))

SetMute(i, choice, net) ==
    Call(i, [op |-> "set_mute", choice |-> choice, net |-> net],
         set_mute(speakers[i], choice, net))

GetMute(i, net) ==
    Call(i, [op |-> "get_mute", net |-> net], get_mute(speakers[i], net))

SetLed(i, choice, net) ==
    Call(i, [op |-> "set_led", choice |-> choice, net |-> net],
         set_led(speakers[i], choice, net))

SetRepeatMode(i, mode, net) ==
    Call(i, [op |-> "set_repeat_mode", mode |-> mode, net |-> net],
         set_repeat_mode(speakers[i], mode, net))

Set7bandEqValue(i, preset_idx, eq_values, net) ==
    Call(i, [op |-> "set_7band_eq_value", preset_idx |-> preset_idx,
             eq_values |-> eq_values, net |-> net],
         set_7band_eq_value(speakers[i], preset_idx, eq_values, net))

PlaybackOps == {"play", "pause", "resume", "next_track", "previous_track"}

Playback(i, op, net) ==
    Call(i, [op |-> op, net |-> net],
         CASE op = "play" -> play(speakers[i], net)
           [] op = "pause" -> pause(speakers[i], net)
           [] op = "resume" -> resume(speakers[i], net)
           [] op = "next_track" -> next_track(speakers[i], net)
           [] op = "previous_track" -> previous_track(speakers[i], net))

Ungroup(i, net) ==
    Call(i, [op |-> "ungroup", net |-> net], ungroup(speakers[i], net))

Refresh(i, nets) ==
    Call(i, [op |-> "refresh", nets |-> nets], refresh(speakers[i], nets))

(***************************************************************************)
(* Inputs of the speaker specification                                     *)
(***************************************************************************)
Host1 == <<"h", "1">>

Host2 == <<"h", "2">>

Host3 == <<"h", "3">>

VolInputs == {-5, 0, 15, 30, 31, 999}

ChoiceInputs == {"on", "off", "loud", "ON"}

ModeInputs == {"off", "all", "one", "shuffle"}

PresetInputs == {0, 5}

\* lists of 0, 6, 7 and 8 values; the entity does not check their range
EqInputs ==
    {<<>>,
     <<1, 2, 3, 4, 5, 6>>,
     <<1, 2, 3, 4, 5, 6, 7>>,
     <<-10, 0, 10, 11, -3, 0, 2>>,
     <<1, 2, 3, 4, 5, 6, 7, 8>>}

\* replies to a command that changes the device
SetNets ==
    {NetExc, NetStatus(404), NetText, NetJson(ResNone), NetJson(ResFalsy),
     NetJson(ResOther), NetJson(ResUicAbsent)}

VolumeReplies ==
    {JStr(<<"1", "5">>), JStr(<<"4", "5">>), JStr(<<" ", "7">>), JStr(<<"a", "b">>),
     JInt(-3), JNull}

MuteReplies == {JTok("on"), JTok("off"), JTok("loud")}

QueryNets(replies) ==
    {NetExc, NetStatus(500), NetText, NetJson(ResFalsy), NetJson(ResUicAbsent)}
        \cup {NetJson(ResUic(v)) : v \in replies}

\* no discover_speakers call is in progress
Idle ==
    [pc |-> "idle", closed |-> FALSE, pending |-> <<>>, found |-> <<>>,
     received |-> 0, how |-> "", exc |-> "", ret |-> <<>>]

NoCall == [call |-> [op |-> "init"], pre |-> NewSpeaker(Host1), ret |-> ResNone, exc |-> ""]

\* WAMMPDController.__init__: not connected, no sync thread, running False.
\* threads holds the position of every thread the controller has started;
\* sync_thread is an index into it, 0 for None. caller is the position of the
\* application thread: the name of the method that returned last, or "join"
\* while it waits inside stop_sync_loop.
WAMMPDController ==
    [is_connected |-> FALSE, sync_thread |-> 0, running |-> FALSE,
     last_mpd_status |-> "", threads |-> <<>>, caller |-> "init"]

NoSync == WAMMPDController

\* GStreamerAudioStreamer.__init__: no stream, no main loop. servers holds
\* every HTTPServer the streamer has created, in order of creation.
GStreamerAudioStreamer(GST_AVAILABLE) ==
    [gstreamer_available |-> GST_AVAILABLE, active_streams |-> <<>>,
     mainloop_thread |-> FALSE, running |-> FALSE, servers |-> <<>>]

NoStreams == GStreamerAudioStreamer(TRUE)

Init ==
    /\ speakers = <<NewSpeaker(Host1)>>
    /\ http = <<>>
    /\ last = NoCall
    /\ setDone = FALSE
    /\ search = Idle
    /\ mpd = NoSync
    /\ streamer = NoStreams

Next ==
    \/ \E v \in VolInputs, net \in SetNets : SetVolume(1, v, net)
    \/ \E net \in QueryNets(VolumeReplies) : GetVolume(1, net)
    \/ \E c \in ChoiceInputs, net \in SetNets : SetMute(1, c, net)
    \/ \E net \in QueryNets(MuteReplies) : GetMute(1, net)
    \/ \E c \in ChoiceInputs, net \in SetNets : SetLed(1, c, net)
    \/ \E m \in ModeInputs, net \in SetNets : SetRepeatMode(1, m, net)
    \/ \E p \in PresetInputs, eq \in EqInputs, net \in {NetExc, NetText} :
          Set7bandEqValue(1, p, eq, net)
    \/ \E op \in PlaybackOps, net \in {NetExc, NetStatus(500), NetText} :
          Playback(1, op, net)

Spec == Init /\ [][Next]_vars

(***************************************************************************)
(* Properties of the speaker entity                                        *)
(***************************************************************************)
\* The volume the device may be given for a requested level
Clamped(v) == IF v < VolMin THEN VolMin ELSE IF v > VolMax THEN VolMax ELSE v

\* C1: set_volume(v) issues one SetVolume request carrying max(0, min(30, v))
\* and, when the command gets a non-empty result, the cached volume read
\* afterwards is max(0, min(30, v)).
C1_SetVolumeClamps ==
    last.call.op = "set_volume" =>
        /\ last.exc = ""
        /\ Len(http) = 1
        /\ http[1].name = "SetVolume"
        /\ http[1].params =
              <<Param("dec", "volume", "", IntToStr(Clamped(last.call.vol_level)))>>
        /\ Truthy(last.ret) => speakers[1].volume = Clamped(last.call.vol_level)

\* set_volume(999) got a non-empty result and the cached volume is 30
C1_Witness ==
    /\ last.call.op = "set_volume"
    /\ last.call.vol_level = 999
    /\ Truthy(last.ret)
    /\ last.pre.volume # 30
    /\ speakers[1].volume = 30

\* C4: set_mute, set_led and set_repeat_mode with an argument outside their
\* domain raise ValueError before any request: no HTTP request is issued and
\* no cached field changes.
C4_InvalidArgumentRejected ==
    LET invalid ==
            \/ /\ last.call.op \in {"set_mute", "set_led"}
               /\ last.call.choice \notin {"on", "off"}
            \/ /\ last.call.op = "set_repeat_mode"
               /\ last.call.mode \notin {"off", "all", "one"}
    IN  invalid =>
            /\ last.exc = "ValueError"
            /\ http = <<>>
            /\ speakers[1] = last.pre

\* set_mute('loud') on a muted speaker was rejected
C4_Witness ==
    /\ last.call.op = "set_mute"
    /\ last.call.choice = "loud"
    /\ last.exc = "ValueError"
    /\ last.pre.mute = "on"
    /\ speakers[1].mute = "on"

\* The names of the seven band parameters, in order
BandNames ==
    <<"eqvalue1", "eqvalue2", "eqvalue3", "eqvalue4", "eqvalue5", "eqvalue6", "eqvalue7">>

\* C12: set_7band_eq_value with a list whose length is not 7 raises
\* ValueError with no request issued and the object unchanged; with 7 values
\* it issues exactly one Set7bandEQValue request whose parameters are the
\* preset index followed by eqvalue1..eqvalue7 holding the values in order.
C12_SevenBandValues ==
    last.call.op = "set_7band_eq_value" =>
        IF Len(last.call.eq_values) # 7
        THEN /\ last.exc = "ValueError"
             /\ http = <<>>
             /\ speakers[1] = last.pre
        ELSE /\ last.exc = ""
             /\ Len(http) = 1
             /\ http[1].name = "Set7bandEQValue"
             /\ Len(http[1].params) = 8
             /\ http[1].params[1] =
                   Param("dec", "presetindex", "", IntToStr(last.call.preset_idx))
             /\ \A k \in 1..7 :
                   http[1].params[k + 1] =
                       Param("dec", BandNames[k], "", IntToStr(last.call.eq_values[k]))

\* seven values, some negative and one above 10, went out in order after
\* preset index 5
C12_Witness ==
    /\ last.call.op = "set_7band_eq_value"
    /\ last.call.preset_idx = 5
    /\ last.call.eq_values = <<-10, 0, 10, 11, -3, 0, 2>>
    /\ Len(http) = 1
    /\ http[1].params[1].cs = <<"5">>
    /\ http[1].params[2].cs = <<"-", "1", "0">>
    /\ http[1].params[5].cs = <<"1", "1">>
    /\ http[1].params[8].name = "eqvalue7"

\* The last call sent its command and returned what the protocol client
\* returned for it
ReturnedClientResult ==
    /\ last.call.op \in {"set_volume", "set_mute", "set_led", "set_repeat_mode",
                         "set_7band_eq_value"}
    /\ last.exc = ""

\* C13: the protocol client returns a result exactly when the HTTP status is
\* 200: the parse of the body when it parses, the raw text under the fallback
\* key otherwise; on a status other than 200 or a transport failure it
\* returns no result; it never raises.
C13_ResultIffStatus200 ==
    ReturnedClientResult =>
        LET net == last.call.net
        IN  IF net.tr = "http" /\ net.status = 200
            THEN /\ last.ret # ResNone
                 /\ last.ret = (IF net.parses THEN net.json ELSE ResRaw)
            ELSE last.ret = ResNone

\* The cached field a set-operation writes, and the value it was asked to set
SetField(s, call) ==
    CASE call.op = "set_volume" -> JInt(s.volume)
      [] call.op = "set_mute" -> JTok(s.mute)
      [] call.op = "set_led" -> JTok(s.led)
      [] call.op = "set_repeat_mode" -> JTok(s.repeat)

Requested(call) ==
    CASE call.op = "set_volume" -> JInt(Clamped(call.vol_level))
      [] call.op = "set_mute" -> JTok(call.choice)
      [] call.op = "set_led" -> JTok(call.choice)
      [] call.op = "set_repeat_mode" -> JTok(call.mode)

\* C14: a set-operation with a valid argument leaves its cached field as it
\* was exactly when the transport yields no result (exception or a status
\* other than 200), and sets it to the requested value for every HTTP 200
\* response whatever its body.
C14_OnlyTransportFailureRecognized ==
    (/\ last.call.op \in {"set_volume", "set_mute", "set_led", "set_repeat_mode"}
     /\ last.exc = "") =>
        LET net == last.call.net
        IN  IF net.tr = "http" /\ net.status = 200
            THEN SetField(speakers[1], last.call) = Requested(last.call)
            ELSE SetField(speakers[1], last.call) = SetField(last.pre, last.call)

\* C21: get_volume() issues one GetVolume request and does not raise; when
\* the reply carries a volume that int() accepts, the cache is updated to it
\* and it is returned; in every other case (no result, no usable reply, a
\* value of any type that is not an integer) the cached volume is returned
\* and the cache is unchanged.
C21_GetVolumeFallsBack ==
    last.call.op = "get_volume" =>
        LET r == _send_command(last.call.net)
            carried == HasResponse(r) /\ r.has /\ py_int(r.v).exc = ""
        IN  /\ last.exc = ""
            /\ Len(http) = 1
            /\ http[1].name = "GetVolume"
            /\ IF carried
               THEN /\ speakers[1].volume = py_int(r.v).n
                    /\ last.ret = JInt(py_int(r.v).n)
               ELSE /\ speakers[1] = last.pre
                    /\ last.ret = JInt(last.pre.volume)

\* The literal value each playback control sends
PlaybackLiteral(op) ==
    CASE op = "play" -> "play"
      [] op = "pause" -> "pause"
      [] op = "resume" -> "resume"
      [] op = "next_track" -> "next"
      [] op = "previous_track" -> "previous"

\* C23: play, pause, resume, next_track and previous_track each issue exactly
\* one SetPlaybackControl request carrying their literal value, whatever its
\* outcome, return the client's result and leave the speaker object as it
\* was.
C23_PlaybackFireAndForget ==
    last.call.op \in PlaybackOps =>
        /\ last.exc = ""
        /\ Len(http) = 1
        /\ http[1].name = "SetPlaybackControl"
        /\ http[1].params =
              <<Param("str", "playbackcontrol", PlaybackLiteral(last.call.op), <<>>)>>
        /\ last.ret = _send_command(last.call.net)
        /\ speakers[1] = last.pre

\* next_track() on a muted speaker got no result: one request with value
\* "next" went out and the object is as before
C23_Witness ==
    /\ last.call.op = "next_track"
    /\ last.call.net = NetExc
    /\ last.pre.mute = "on"
    /\ Len(http) = 1
    /\ http[1].params[1].s = "next"
    /\ speakers[1] = last.pre

(***************************************************************************)
(* The speaker specification with refresh(): every query of a refresh gets *)
(* its own reply, and at most MaxFaults of the six replies differ from a   *)
(* well-formed reply carrying a valid value.                               *)
(***************************************************************************)
MaxFaults == 1

FieldSet == {RefreshFields[k] : k \in 1..Len(RefreshFields)}

GoodReply(f) ==
    CASE f = "name" -> NetJson(ResUic(JCdata(<<"K">>)))
      [] f = "led" -> NetJson(ResUic(JTok("on")))
      [] f = "mute" -> NetJson(ResUic(JTok("on")))
      [] f = "volume" -> NetJson(ResUic(JStr(<<"1", "5">>)))
      [] f = "group" -> NetJson(ResUic(JCdataTok("Zone1")))
      [] f = "repeat" -> NetJson(ResUic(JTok("all")))

\* no result, a reply without the field, a body that is not JSON, and the
\* values a device is not expected to send
FaultReplies(f) ==
    {NetExc, NetText, NetJson(ResUicAbsent)} \cup
    CASE f = "name" -> {NetJson(ResUic(JStr(<<"K">>))), NetJson(ResUic(JDict))}
      [] f = "led" -> {NetJson(ResUic(JTok("blink")))}
      [] f = "mute" -> {NetJson(ResUic(JTok("loud")))}
      [] f = "volume" -> {NetJson(ResUic(JStr(<<"4", "5">>))),
                          NetJson(ResUic(JStr(<<"a", "b">>))),
                          NetJson(ResUic(JNull))}
      [] f = "group" -> {NetJson(ResUic(JTok("Zone1")))}
      [] f = "repeat" -> {NetJson(ResUic(JTok("shuffle")))}

RefreshNets ==
    UNION {
        {[f \in FieldSet |-> IF f \in DOMAIN g THEN g[f] ELSE GoodReply(f)] :
            g \in {h \in [F -> UNION {FaultReplies(f) : f \in F}] :
                      \A f \in F : h[f] \in FaultReplies(f)}} :
        F \in {G \in SUBSET FieldSet : Cardinality(G) <= MaxFaults}}

NextRefresh ==
    \/ \E nets \in RefreshNets : Refresh(1, nets)
    \/ \E net \in {NetExc, NetText} : SetVolume(1, 20, net)
    \/ \E net \in {NetExc, NetJson(ResUic(JStr(<<"4", "5">>)))} : GetVolume(1, net)
    \/ \E c \in {"off", "loud"}, net \in {NetExc, NetText} : SetMute(1, c, net)
    \/ \E net \in {NetExc, NetJson(ResUic(JTok("loud")))} : GetMute(1, net)
    \/ \E c \in {"off", "loud"}, net \in {NetExc, NetText} : SetLed(1, c, net)
    \/ \E m \in {"one", "shuffle"}, net \in {NetExc, NetText} : SetRepeatMode(1, m, net)

SpecRefresh == Init /\ [][NextRefresh]_vars

(***************************************************************************)
(* Properties of the cached state under refresh and the queries            *)
(***************************************************************************)
\* C2: once set_volume has set the cached volume, the cached volume is
\* within [0, 30] in every state, whatever get_volume and refresh read
\* afterwards.
C2_VolumeInRange ==
    setDone => speakers[1].volume \in VolMin..VolMax

\* C3: the cached mute and LED are 'on' or 'off' and the cached repeat is
\* 'off', 'all' or 'one' in every reachable state.
C3_EnumeratedFields ==
    /\ speakers[1].mute \in {"on", "off"}
    /\ speakers[1].led \in {"on", "off"}
    /\ speakers[1].repeat \in {"off", "all", "one"}

\* The cached value of field f of speaker object s
Cached(s, f) ==
    CASE f = "name" -> JStr(s.name)
      [] f = "led" -> JTok(s.led)
      [] f = "mute" -> JTok(s.mute)
      [] f = "volume" -> JInt(s.volume)
      [] f = "group" -> JTok(s.group_name)
      [] f = "repeat" -> JTok(s.repeat)

\* The fetch of field f got a result that carries a usable value
Fetched(f, net) ==
    LET r == _send_command(net)
    IN  /\ HasResponse(r)
        /\ r.has
        /\ CASE f \in {"name", "group"} -> r.v.t = "cdata"
             [] f = "volume" -> py_int(r.v).exc = ""
             [] OTHER -> r.v.t = "str"

\* The value a successful fetch of field f carries
FetchedValue(f, net) ==
    LET v == _send_command(net).v
    IN  CASE f = "name" -> JStr(v.cs)
          [] f = "volume" -> JInt(py_int(v).n)
          [] OTHER -> JTok(v.s)

\* C10: in refresh(), a field whose fetch fails or carries no value keeps
\* its cached value, every field whose fetch succeeds is updated to the
\* fetched value, and all six fields are fetched whatever happens to the
\* earlier ones.
C10_RefreshFieldsIndependent ==
    last.call.op = "refresh" =>
        /\ Len(http) = Len(RefreshFields)
        /\ \A f \in FieldSet :
              Cached(speakers[1], f) =
                  IF Fetched(f, last.call.nets[f])
                  THEN FetchedValue(f, last.call.nets[f])
                  ELSE Cached(last.pre, f)

(***************************************************************************)
(* The group specification: one call of create_group or of                 *)
(* group_with_speakers on a working set of three speakers, each grouped or *)
(* not before the call.                                                    *)
(***************************************************************************)
MaxNames == 3

MaxOthers == 2

SeqsUpTo(S, n) == UNION {[1..k -> S] : k \in 0..n}

GroupSpeaker(ip, name, group_name, mac) ==
    SamsungWamSpeaker(ip, name, "off", "off", DefaultVolume, group_name, "off", mac)

GroupWorkingSets ==
    {<<GroupSpeaker(Host1, <<"K">>, g1, "aa:01"),
       GroupSpeaker(Host2, <<"B">>, g2, ""),
       GroupSpeaker(Host3, <<"c">>, g3, "")>> : g1 \in {"", "Old"}, g2 \in {"", "Old"}, g3 \in {"", "Old"}}

\* names a caller may give: "k" names the first speaker, "C" the third, "Z"
\* none
NameInputs == {<<"k">>, <<"B">>, <<"C">>, <<"Z">>}

GroupNets == {NetExc, NetText}

InitGroup ==
    /\ speakers \in GroupWorkingSets
    /\ http = <<>>
    /\ last = NoCall
    /\ setDone = FALSE
    /\ search = Idle
    /\ mpd = NoSync
    /\ streamer = NoStreams

\* The calls of this specification are made on the initial working set
Fresh == last.call.op = "init"

CreateGroup(group_name, speaker_names, nets) ==
    LET out == create_group(speakers, group_name, speaker_names, nets)
    IN  /\ speakers' = out.objs
        /\ http' = out.reqs
        /\ last' = [call |-> [op |-> "create_group", group_name |-> group_name,
                              speaker_names |-> speaker_names, nets |-> nets],
                    pre |-> speakers, ret |-> out.ret, exc |-> out.exc]
        /\ UNCHANGED <<setDone, search, mpd, streamer>>

GroupWithSpeakers(self, group_name, others, nets) ==
    LET out == group_with_speakers(speakers, self, group_name, others, nets)
    IN  /\ speakers' = out.objs
        /\ http' = out.reqs
        /\ last' = [call |-> [op |-> "group_with_speakers", self |-> self,
                              group_name |-> group_name, others |-> others,
                              nets |-> nets],
                    pre |-> speakers, ret |-> out.ret, exc |-> ""]
        /\ UNCHANGED <<setDone, search, mpd, streamer>>

UngroupAll(nets) ==
    LET out == ungroup_all(speakers, nets)
    IN  /\ speakers' = out.objs
        /\ http' = out.reqs
        /\ last' = [call |-> [op |-> "ungroup_all", nets |-> nets],
                    pre |-> speakers, ret |-> out.ret, exc |-> ""]
        /\ UNCHANGED <<setDone, search, mpd, streamer>>

NextGroup ==
    \/ /\ Fresh
       /\ \E names \in SeqsUpTo(NameInputs, MaxNames) :
             \E nets \in [1..RequestsNeeded(speakers, names) -> GroupNets] :
                 CreateGroup("Zone1", names, nets)
    \/ /\ Fresh
       /\ \E self \in 1..3, others \in SeqsUpTo(1..3, MaxOthers) :
             \E nets \in [1..(Len(others) + 2) -> GroupNets] :
                 GroupWithSpeakers(self, "Zone1", others, nets)
    \/ /\ Fresh
       /\ \E nets \in [1..Len(speakers) -> GroupNets] : UngroupAll(nets)

SpecGroup == InitGroup /\ [][NextGroup]_vars

(***************************************************************************)
(* Properties of group formation                                           *)
(***************************************************************************)
\* Name n is the name, ignoring case, of a speaker of working set objs
Resolvable(objs, n) ==
    \E i \in 1..Len(objs) : lower(objs[i].name) = lower(n)

\* The names of the list that resolve, in the order given
ResolvableNames(objs, names) ==
    SelectSeq(names, LAMBDA n : Resolvable(objs, n))

\* The addresses the sub-speaker parameters of a group command name
SubAddresses(req) ==
    LET ps == SelectSeq(req.params, LAMBDA q : q.name = "subspkip")
    IN  [k \in 1..Len(ps) |-> ps[k].cs]

GroupCommands(reqs) == SelectSeq(reqs, LAMBDA r : r.name = "SetMultispkGroup")

GroupNames(objs) == [i \in 1..Len(objs) |-> objs[i].group_name]

\* C5: create_group with fewer than two names resolving to a speaker of the
\* working set issues no request at all, and no cached group name changes.
C5_TooFewSpeakersNoRequest ==
    (/\ last.call.op = "create_group"
     /\ Len(ResolvableNames(last.pre, last.call.speaker_names)) < 2) =>
        /\ http = <<>>
        /\ GroupNames(speakers) = GroupNames(last.pre)
        /\ ~Truthy(last.ret)

\* create_group for one resolvable and one unknown name on a working set
\* with a grouped speaker left everything as it was
C5_Witness ==
    /\ last.call.op = "create_group"
    /\ last.call.speaker_names = <<<<"k">>, <<"Z">>>>
    /\ last.pre[1].group_name = "Old"
    /\ http = <<>>
    /\ speakers = last.pre

\* C6: create_group with at least two names resolving: the speaker of the
\* first resolvable name is the main speaker, the speakers of the other
\* resolvable names are the sub-speakers in order, exactly one group command
\* is issued, by the main speaker, naming every sub-speaker's address, and on
\* apparent success the main speaker's cached group name is the new name.
C6_GroupFromResolvableNames ==
    LET names == ResolvableNames(last.pre, last.call.speaker_names)
        who == [k \in 1..Len(names) |-> get_speaker_by_name(last.pre, names[k])]
        cmds == GroupCommands(http)
    IN  (last.call.op = "create_group" /\ Len(names) >= 2) =>
            /\ Len(cmds) = 1
            /\ cmds[1] = http[Len(http)]
            /\ cmds[1].ip = last.pre[who[1]].ip_address
            /\ SubAddresses(cmds[1]) =
                  [k \in 1..(Len(names) - 1) |-> last.pre[who[k + 1]].ip_address]
            /\ Truthy(last.ret) =>
                  speakers[who[1]].group_name = last.call.group_name

\* create_group("Zone1", ["Z", "C", "k"]): the unknown name was skipped, the
\* third speaker became main with the first as its only sub-speaker
C6_Witness ==
    /\ last.call.op = "create_group"
    /\ last.call.speaker_names = <<<<"Z">>, <<"C">>, <<"k">>>>
    /\ Truthy(last.ret)
    /\ last.pre[3].group_name = "Old"
    /\ speakers[3].group_name = "Zone1"
    /\ SubAddresses(http[Len(http)]) = <<Host1>>

\* C7: group_with_speakers sends an ungroup command to self and to every
\* speaker of others, whatever its cached group, before the group command,
\* and then exactly one group command, from self, naming every sub-speaker's
\* address.
C7_UngroupAllThenGroup ==
    last.call.op = "group_with_speakers" =>
        LET part == <<last.call.self>> \o last.call.others
            n == Len(part)
        IN  /\ Len(http) = n + 1
            /\ \A k \in 1..n :
                  /\ http[k].name = "SetUngroup"
                  /\ http[k].ip = last.pre[part[k]].ip_address
            /\ http[n + 1].name = "SetMultispkGroup"
            /\ http[n + 1].ip = last.pre[last.call.self].ip_address
            /\ SubAddresses(http[n + 1]) =
                  [k \in 1..Len(last.call.others) |->
                      last.pre[last.call.others[k]].ip_address]

\* a speaker with an empty cached group name was a sub-speaker and got its
\* ungroup command before the group command
C7_Witness ==
    /\ last.call.op = "group_with_speakers"
    /\ last.call.self = 1
    /\ last.call.others = <<2, 3>>
    /\ last.pre[2].group_name = ""
    /\ last.pre[3].group_name = "Old"
    /\ Len(http) = 4
    /\ http[2].ip = Host2 /\ http[2].name = "SetUngroup"
    /\ http[4].name = "SetMultispkGroup"

\* C20: after group_with_speakers the caller's cached group name is the new
\* name exactly when the group command got a non-empty result; every other
\* speaker's cached group name, the sub-speakers' included, is what it was or
\* empty (from its ungroup command), never the new name.
C20_OnlyCallerMarked ==
    last.call.op = "group_with_speakers" =>
        /\ (speakers[last.call.self].group_name = last.call.group_name)
               <=> Truthy(last.ret)
        /\ \A i \in 1..Len(speakers) :
              i # last.call.self =>
                 /\ speakers[i].group_name # last.call.group_name
                 /\ speakers[i].group_name \in {last.pre[i].group_name, ""}

\* the first speaker grouped the other two with success: it alone carries
\* the new name
C20_Witness ==
    /\ last.call.op = "group_with_speakers"
    /\ last.call.self = 1
    /\ last.call.others = <<2, 3>>
    /\ Truthy(last.ret)
    /\ GroupNames(last.pre) = <<"", "Old", "">>
    /\ GroupNames(speakers) = <<"Zone1", "", "">>

\* The positions in working set objs of the speakers with a non-empty cached
\* group name, in order
RECURSIVE Grouped(_, _)
Grouped(objs, k) ==
    IF k > Len(objs) THEN <<>>
    ELSE (IF objs[k].group_name # "" THEN <<k>> ELSE <<>>) \o Grouped(objs, k + 1)

\* C11: ungroup_all() issues one ungroup command to each speaker of the
\* working set whose cached group name is non-empty, in order, and no request
\* to any other speaker: as many commands as there are grouped speakers.
C11_UngroupAllOnlyGrouped ==
    last.call.op = "ungroup_all" =>
        LET g == Grouped(last.pre, 1)
        IN  /\ Len(http) = Len(g)
            /\ \A k \in 1..Len(g) :
                  /\ http[k].name = "SetUngroup"
                  /\ http[k].ip = last.pre[g[k]].ip_address
            /\ \A i \in 1..Len(last.pre) :
                  last.pre[i].group_name = "" => speakers[i] = last.pre[i]

\* of three speakers only the second was grouped: one command, to it, and
\* its cached group name is cleared
C11_Witness ==
    /\ last.call.op = "ungroup_all"
    /\ GroupNames(last.pre) = <<"", "Old", "">>
    /\ Len(http) = 1
    /\ http[1].ip = Host2
    /\ GroupNames(speakers) = <<"", "", "">>

(***************************************************************************)
(* The discovery specification: one call of WamController.discover() on a  *)
(* new controller, for the datagrams the socket delivers and the content   *)
(* of the persisted device list.                                           *)
(***************************************************************************)
MaxDatagrams == 3

MaxPersisted == 2

\* the first address answers its name query with a name or not at all, the
\* second with an empty name
Datagrams ==
    {[addr |-> Host1, kind |-> "match", net |-> n] :
        n \in {NetExc, NetJson(ResUic(JCdata(<<"N", "e", "w">>)))}}
        \cup {[addr |-> Host2, kind |-> "match", net |-> NetJson(ResUic(JCdata(<<>>)))],
              [addr |-> Host2, kind |-> "other", net |-> NetExc],
              [addr |-> Host2, kind |-> "undecodable", net |-> NetExc]}

Sockets ==
    {[send_ok |-> TRUE, dgrams |-> ds, ending |-> e] :
        ds \in SeqsUpTo(Datagrams, MaxDatagrams), e \in {"timeout", "error"}}
        \cup {[send_ok |-> FALSE, dgrams |-> <<>>, ending |-> "error"]}

PersistedRecord(a, g) ==
    [IPAddress |-> a, Name |-> <<"O", "l", "d">>, LED |-> "off", Mute |-> "off",
     Volume |-> DefaultVolume, GroupName |-> g, Repeat |-> "off", MAC |-> ""]

PersistedRecords ==
    {PersistedRecord(Host1, ""), PersistedRecord(Host3, ""), PersistedRecord(Host3, "Old")}

ConfigFiles ==
    {[state |-> "ok", records |-> rs] : rs \in SeqsUpTo(PersistedRecords, MaxPersisted)}
        \cup {[state |-> "missing", records |-> <<>>],
              [state |-> "invalid", records |-> <<>>]}

InitDiscover ==
    /\ speakers = <<>>
    /\ http = <<>>
    /\ last = NoCall
    /\ setDone = FALSE
    /\ search = Idle
    /\ mpd = NoSync
    /\ streamer = NoStreams

Discover(sock, file) ==
    LET out == discover(sock, file)
    IN  /\ speakers' = out.objs
        /\ http' = out.reqs
        /\ last' = [call |-> [op |-> "discover", sock |-> sock, file |-> file],
                    pre |-> speakers,
                    ret |-> [discovered |-> out.discovered, config |-> out.config],
                    exc |-> ""]
        /\ UNCHANGED <<setDone, search, mpd, streamer>>

NextDiscover ==
    /\ Fresh
    /\ \E sock \in Sockets, file \in ConfigFiles : Discover(sock, file)

SpecDiscover == InitDiscover /\ [][NextDiscover]_vars

(***************************************************************************)
(* Properties of discovery and of the working set                          *)
(***************************************************************************)
Addresses(list) == {list[i].ip_address : i \in 1..Len(list)}

\* The position in list of the first entry with address a
FirstAt(list, a) ==
    CHOOSE i \in 1..Len(list) :
        list[i].ip_address = a /\ \A j \in 1..(i - 1) : list[j].ip_address # a

\* C8: after discover() the working set is the discovered speakers followed
\* by the persisted ones with only the first entry per address kept: one
\* entry per address, in the order of first occurrence, and for an address in
\* both lists the discovered speaker, not the persisted record.
C8_WorkingSetMerge ==
    last.call.op = "discover" =>
        LET all == last.ret.discovered \o last.ret.config
        IN  /\ Addresses(speakers) = Addresses(all)
            /\ \A i, j \in 1..Len(speakers) :
                  i < j =>
                     /\ speakers[i].ip_address # speakers[j].ip_address
                     /\ FirstAt(all, speakers[i].ip_address)
                            < FirstAt(all, speakers[j].ip_address)
            /\ \A i \in 1..Len(speakers) :
                  speakers[i] = all[FirstAt(all, speakers[i].ip_address)]
            /\ \A i \in 1..Len(speakers) :
                  speakers[i].ip_address \in Addresses(last.ret.discovered) =>
                     \E k \in 1..Len(last.ret.discovered) :
                        speakers[i] = last.ret.discovered[k]

\* the address of a persisted record named "Old" answered the search as
\* "New": the working set holds that address once, named "New"
C8_Witness ==
    /\ last.call.op = "discover"
    /\ \E k \in 1..Len(last.ret.config) :
          /\ last.ret.config[k].ip_address = Host1
          /\ last.ret.config[k].name = <<"O", "l", "d">>
    /\ \E k \in 1..Len(last.ret.discovered) :
          /\ last.ret.discovered[k].ip_address = Host1
          /\ last.ret.discovered[k].name = <<"N", "e", "w">>
    /\ Cardinality({i \in 1..Len(speakers) : speakers[i].ip_address = Host1}) = 1
    /\ \A i \in 1..Len(speakers) :
          speakers[i].ip_address = Host1 => speakers[i].name = <<"N", "e", "w">>
    /\ Len(speakers) >= 2

\* The datagrams discover_speakers received and took for a speaker's answer:
\* those before the first one that ends the loop
RECURSIVE Answers(_)
Answers(dgrams) ==
    IF dgrams = <<>> \/ Head(dgrams).kind = "undecodable" THEN <<>>
    ELSE IF Head(dgrams).kind = "match" THEN <<Head(dgrams)>> \o Answers(Tail(dgrams))
    ELSE Answers(Tail(dgrams))

\* C9: the list discover_speakers returns holds at most one speaker per
\* source address, and exactly one for every address that answered: the one
\* made from its first answer.
C9_OneSpeakerPerAddress ==
    last.call.op = "discover" =>
        LET found == last.ret.discovered
            ans == IF last.call.sock.send_ok THEN Answers(last.call.sock.dgrams) ELSE <<>>
        IN  /\ \A i, j \in 1..Len(found) :
                  found[i].ip_address = found[j].ip_address => i = j
            /\ Addresses(found) = {ans[k].addr : k \in 1..Len(ans)}
            /\ \A i \in 1..Len(found) :
                  LET first == CHOOSE k \in 1..Len(ans) :
                                  /\ ans[k].addr = found[i].ip_address
                                  /\ \A m \in 1..(k - 1) : ans[m].addr # found[i].ip_address
                  IN  found[i].name =
                         DiscoveredName(found[i].ip_address, _send_command(ans[first].net))

\* one address answered twice, first without a name and then as "New": the
\* list holds it once, under the fallback name
C9_Witness ==
    /\ last.call.op = "discover"
    /\ Len(last.call.sock.dgrams) = 3
    /\ last.call.sock.dgrams[1] = [addr |-> Host1, kind |-> "match", net |-> NetExc]
    /\ last.call.sock.dgrams[2].addr = Host2 /\ last.call.sock.dgrams[2].kind = "match"
    /\ last.call.sock.dgrams[3] =
          [addr |-> Host1, kind |-> "match", net |-> NetJson(ResUic(JCdata(<<"N", "e", "w">>)))]
    /\ Len(last.ret.discovered) = 2
    /\ last.ret.discovered[1].name = FallbackName(Host1)

(***************************************************************************)
(* The search specification: one call of discover_speakers, step by step.  *)
(* The socket is created and bound, the query is sent, and each step of    *)
(* the loop is one recvfrom: a datagram, the timeout, or an error.         *)
(***************************************************************************)
\* interface_ip is not given; sock.bind succeeds; sock.bind raises OSError
BindOutcomes == {"none", "ok", "fail"}

InitSearch ==
    /\ speakers = <<>>
    /\ http = <<>>
    /\ last = NoCall
    /\ setDone = FALSE
    /\ search = Idle
    /\ mpd = NoSync
    /\ streamer = NoStreams

\* `finally: sock.close()` and `return speakers`; how says what ended the try
\* block: "timeout" (the break), "send_error", "recv_error", "decode_error"
\* (the exceptions `except Exception` catches and prints)
Returned(s, how) ==
    [s EXCEPT !.pc = "returned", !.closed = TRUE, !.how = how, !.ret = s.found]

\* The socket is created, given its timeout and options and, when an
\* interface address is configured, bound to it: all before the try block,
\* so that an exception of bind leaves the function at once.
OpenSocket(sock, bind) ==
    /\ search.pc = "idle"
    /\ search' = IF bind = "fail"
                 THEN [Idle EXCEPT !.pc = "raised", !.exc = "OSError"]
                 ELSE [Idle EXCEPT !.pc = "sending", !.pending = sock.dgrams]
    /\ http' = <<>>
    /\ last' = [call |-> [op |-> "discover_speakers", sock |-> sock, bind |-> bind],
                pre |-> speakers, ret |-> ResNone, exc |-> ""]
    /\ UNCHANGED <<speakers, setDone, mpd, streamer>>

\* sock.sendto(discovery_message, ...)
SendSearch ==
    /\ search.pc = "sending"
    /\ search' = IF last.call.sock.send_ok
                 THEN [search EXCEPT !.pc = "receiving"]
                 ELSE Returned(search, "send_error")
    /\ UNCHANGED <<speakers, http, last, setDone, mpd, streamer>>

Receive_again ==
    /\ search.pc = "receiving"
    /\ search.pending # <<>>
    /\ UNCHANGED vars

\* One pass of the loop in which recvfrom returns a datagram
Receive ==
    /\ search.pc = "receiving"
    /\ search.pending # <<>>
    /\ LET d == Head(search.pending)
           got == [search EXCEPT !.pending = Tail(search.pending),
                                 !.received = search.received + 1]
           r == ReceiveAll(<<d>>, search.found, http)
       IN  IF d.kind = "undecodable"
           THEN /\ search' = Returned(got, "decode_error")
                /\ http' = http
           ELSE /\ search' = [got EXCEPT !.found = r.speakers]
                /\ http' = r.reqs
    /\ UNCHANGED <<speakers, last, setDone, mpd, streamer>>

ReceiveEnd_discarding ==
    /\ search.pc = "receiving"
    /\ search.pending = <<>>
    /\ search' =
          [Returned([search EXCEPT !.received = search.received + 1],
                    IF last.call.sock.ending = "timeout" THEN "timeout" ELSE "recv_error")
             EXCEPT !.ret = IF last.call.sock.ending = "timeout" THEN search.found ELSE <<>>]
    /\ UNCHANGED <<speakers, http, last, setDone, mpd, streamer>>

\* The pass of the loop in which recvfrom raises: socket.timeout (the break)
\* or another socket error (caught by `except Exception`)
ReceiveEnd ==
    /\ search.pc = "receiving"
    /\ search.pending = <<>>
    /\ search' =
          Returned([search EXCEPT !.received = search.received + 1],
                   IF last.call.sock.ending = "timeout" THEN "timeout" ELSE "recv_error")
    /\ UNCHANGED <<speakers, http, last, setDone, mpd, streamer>>

NextSearch ==
    \/ \E sock \in Sockets, bind \in BindOutcomes : OpenSocket(sock, bind)
    \/ SendSearch
    \/ Receive
    \/ ReceiveEnd

SpecSearch == InitSearch /\ [][NextSearch]_vars

\* recvfrom returns: with a datagram when one is there, with socket.timeout
\* after the timeout set on the socket otherwise; sendto returns or raises
SpecSearchLive ==
    /\ InitSearch
    /\ [][NextSearch]_vars
    /\ WF_vars(SendSearch)
    /\ WF_vars(Receive)
    /\ WF_vars(ReceiveEnd)

(***************************************************************************)
(* Properties of one discovery run                                         *)
(***************************************************************************)
\* C15: whenever discover_speakers has been left after creating the socket,
\* by return or by an exception, the socket is closed.
C15_SocketClosedOnExit ==
    search.pc \in {"returned", "raised"} => search.closed

\* C16: a socket error of sendto or of a recvfrom ends the call at once: it
\* returns, without raising, the speakers collected up to then, and issues no
\* further request.
C16_SocketErrorKeepsCollected ==
    [][(/\ search.pc \in {"sending", "receiving"}
        /\ search'.pc # search.pc
        /\ \/ search.pc = "sending" /\ ~last.call.sock.send_ok
           \/ /\ search.pc = "receiving"
              /\ search.pending = <<>>
              /\ last.call.sock.ending = "error") =>
            /\ search'.pc = "returned"
            /\ search'.exc = ""
            /\ search'.ret = search.found
            /\ http' = http]_vars

\* two speakers had answered when recvfrom failed: both are returned
C16_Witness ==
    /\ search.pc = "returned"
    /\ search.how = "recv_error"
    /\ search.exc = ""
    /\ Len(search.ret) = 2
    /\ search.received = 3

\* C17: when discover_speakers has returned, the number of GetSpkName
\* requests it issued is the number of distinct addresses that answered.
C17_OneNameQueryPerAddress ==
    search.pc = "returned" =>
        LET ans == Answers(SubSeq(last.call.sock.dgrams, 1,
                                  Len(last.call.sock.dgrams) - Len(search.pending)))
        IN  Len(SelectSeq(http, LAMBDA r : r.name = "GetSpkName"))
                = Cardinality({ans[k].addr : k \in 1..Len(ans)})

\* The datagrams that hold the search target
Matching(dgrams) == SelectSeq(dgrams, LAMBDA d : d.kind = "match")

\* C27: datagrams without the search target are ignored: when
\* discover_speakers has returned after receiving every datagram, the list
\* it returns is the list it returns for the matching datagrams alone.
C27_OtherDatagramsIgnored ==
    (/\ search.pc = "returned"
     /\ last.call.sock.send_ok
     /\ last.call.sock.ending = "timeout") =>
        search.ret = ReceiveAll(Matching(last.call.sock.dgrams), <<>>, <<>>).speakers

MembershipNets(g) == [f \in FieldSet |-> IF f = "group" THEN g ELSE NetExc]

\* no result, a group name, the empty group name
GroupNameReplies ==
    {NetExc, NetJson(ResUic(JCdataTok("Den"))), NetJson(ResUic(JCdataTok("")))}

\* the caller and the sub-speakers of the group calls
Groupings ==
    {[self |-> 1, others |-> <<2>>], [self |-> 1, others |-> <<2, 3>>],
     [self |-> 3, others |-> <<1>>]}

\* a for each ungroup command, b for the group command
GroupingNets(n) ==
    {[k \in 1..n |-> IF k < n THEN a ELSE b] : a \in GroupNets, b \in GroupNets}

NextMembership ==
    \/ \E i \in 1..3, net \in GroupNets : Ungroup(i, net)
    \/ \E i \in 1..3, g \in GroupNameReplies : Refresh(i, MembershipNets(g))
    \/ \E c \in Groupings :
          \E nets \in GroupingNets(Len(c.others) + 2) :
              GroupWithSpeakers(c.self, "Zone1", c.others, nets)
    \/ \E net \in GroupNets : UngroupAll([k \in 1..Len(speakers) |-> net])
    \/ \E net \in GroupNets : SetMute(1, "on", net)

SpecMembership == InitGroup /\ [][NextMembership]_vars

(***************************************************************************)
(* Properties of group membership                                          *)
(***************************************************************************)
\* The step takes the cached group name of speaker i from non-empty to empty
GroupLeft(i) == speakers[i].group_name # "" /\ speakers'[i].group_name = ""

\* The step takes the cached group name of speaker i from empty to non-empty
GroupEntered(i) == speakers[i].group_name = "" /\ speakers'[i].group_name # ""

\* Among the requests reqs is command name to address ip
RequestTo(reqs, ip, name) ==
    \E k \in 1..Len(reqs) : reqs[k].name = name /\ reqs[k].ip = ip

\* C19 as stated: a cached group name goes from non-empty to empty only by
\* an ungroup() of that speaker, and from empty to non-empty only by a
\* group_with_speakers call in which the speaker is the caller or one of the
\* sub-speakers.
C19_OnlyUngroupAndGroup ==
    [][\A i \in 1..Len(speakers) :
          /\ GroupLeft(i) => RequestTo(http', speakers[i].ip_address, "SetUngroup")
          /\ GroupEntered(i) =>
                /\ last'.call.op = "group_with_speakers"
                /\ \/ last'.call.self = i
                   \/ \E k \in 1..Len(last'.call.others) : last'.call.others[k] = i]_vars

\* C19: a cached group name goes from non-empty to empty only by an
\* ungroup() of that speaker (called directly, by ungroup_all or by
\* group_with_speakers) or by a refresh() of it, and from empty to non-empty
\* only by a group_with_speakers call of that speaker as the caller that got
\* a non-empty result or by a refresh() of it.
C19_MembershipTransitions ==
    [][\A i \in 1..Len(speakers) :
          /\ GroupLeft(i) =>
                \/ RequestTo(http', speakers[i].ip_address, "SetUngroup")
                \/ /\ last'.call.op = "refresh"
                   /\ RequestTo(http', speakers[i].ip_address, "GetGroupName")
          /\ GroupEntered(i) =>
                \/ /\ last'.call.op = "group_with_speakers"
                   /\ last'.call.self = i
                   /\ Truthy(last'.ret)
                \/ /\ last'.call.op = "refresh"
                   /\ RequestTo(http', speakers[i].ip_address, "GetGroupName")]_vars

\* the speaker that had formed group "Zone1" was refreshed, the device
\* reported an empty group name, and its cached group name is empty
C19_Witness ==
    /\ last.call.op = "refresh"
    /\ last.pre.group_name = "Zone1"
    /\ \E i \in 1..Len(speakers) :
          /\ http[1].ip = speakers[i].ip_address
          /\ speakers[i].group_name = ""
    /\ \A k \in 1..Len(http) : http[k].name # "SetUngroup"

(***************************************************************************)
(* The lookup specification: one call of get_speaker_by_name or of         *)
(* get_speaker_by_ip on a working set that discover() built from the       *)
(* persisted device list alone (no speaker answered the search).           *)
(***************************************************************************)
MaxLookup == 3

\* a record of the persisted list with name n; n is text or null
LookupRecord(a, n) == [PersistedRecord(a, "") EXCEPT !.Name = n]

LookupRecords ==
    {LookupRecord(a, n) : a \in {Host1, Host2, Host3},
                          n \in {<<"K">>, <<"k">>, NoneName}}

\* the search is sent and the first receive times out
QuietSocket == [send_ok |-> TRUE, dgrams |-> <<>>, ending |-> "timeout"]

LookupWorkingSets ==
    {discover(QuietSocket, [state |-> "ok", records |-> rs]).objs :
        rs \in SeqsUpTo(LookupRecords, MaxLookup)}

InitLookup ==
    /\ speakers \in LookupWorkingSets
    /\ http = <<>>
    /\ last = NoCall
    /\ setDone = FALSE
    /\ search = Idle
    /\ mpd = NoSync
    /\ streamer = NoStreams

GetSpeakerByName(name) ==
    LET found == get_speaker_by_name(speakers, name)
    IN  /\ last' = [call |-> [op |-> "get_speaker_by_name", name |-> name],
                    pre |-> speakers,
                    ret |-> IF found = -1 THEN 0 ELSE found,
                    exc |-> IF found = -1 THEN "AttributeError" ELSE ""]
        /\ http' = <<>>
        /\ UNCHANGED <<speakers, setDone, search, mpd, streamer>>

GetSpeakerByIp(ip) ==
    /\ last' = [call |-> [op |-> "get_speaker_by_ip", ip |-> ip],
                pre |-> speakers,
                ret |-> get_speaker_by_ip(speakers, ip),
                exc |-> ""]
    /\ http' = <<>>
    /\ UNCHANGED <<speakers, setDone, search, mpd, streamer>>

NextLookup ==
    \/ /\ Fresh
       /\ \E name \in {<<"K">>, <<"k">>, <<"Z">>} : GetSpeakerByName(name)
    \/ /\ Fresh
       /\ \E ip \in {Host1, Host3, <<"H", "1">>} : GetSpeakerByIp(ip)

SpecLookup == InitLookup /\ [][NextLookup]_vars

(***************************************************************************)
(* Properties of the lookups                                               *)
(***************************************************************************)
\* Name a of a speaker equals the query q ignoring case
SameNameIgnoringCase(a, q) == a # NoneName /\ lower(a) = lower(q)

\* The first position of objs that satisfies P, 0 when none does
FirstWhere(objs, P(_)) ==
    IF \E i \in 1..Len(objs) : P(objs[i])
    THEN CHOOSE i \in 1..Len(objs) : P(objs[i]) /\ \A j \in 1..(i - 1) : ~P(objs[j])
    ELSE 0

\* C22: get_speaker_by_name returns the first speaker of the working set
\* whose name equals the query ignoring case, get_speaker_by_ip the first
\* whose address equals the query; both return None when there is none,
\* neither raises, and the working set is unchanged.
C22_LookupsNeverRaise ==
    /\ last.call.op = "get_speaker_by_name" =>
          /\ last.exc = ""
          /\ speakers = last.pre
          /\ last.ret = FirstWhere(last.pre,
                           LAMBDA s : SameNameIgnoringCase(s.name, last.call.name))
    /\ last.call.op = "get_speaker_by_ip" =>
          /\ last.exc = ""
          /\ speakers = last.pre
          /\ last.ret = FirstWhere(last.pre, LAMBDA s : s.ip_address = last.call.ip)

(***************************************************************************)
(* Properties of the group operations under transport failures             *)
(***************************************************************************)
\* C24: when a request of ungroup_all() or of group_with_speakers meets a
\* transport failure, the call does not raise and every speaker that was to
\* get an ungroup command still gets it: in ungroup_all every speaker with a
\* non-empty cached group name, in group_with_speakers self and every
\* sub-speaker, followed by the group command.
C24_UnreachableSpeakerDoesNotBlock ==
    (/\ last.call.op \in {"ungroup_all", "group_with_speakers"}
     /\ \E k \in DOMAIN last.call.nets : last.call.nets[k] = NetExc) =>
        /\ last.exc = ""
        /\ last.call.op = "ungroup_all" =>
              \A i \in 1..Len(last.pre) :
                 last.pre[i].group_name # "" =>
                    RequestTo(http, last.pre[i].ip_address, "SetUngroup")
        /\ last.call.op = "group_with_speakers" =>
              /\ \A k \in 1..Len(last.call.others) :
                    RequestTo(http, last.pre[last.call.others[k]].ip_address, "SetUngroup")
              /\ RequestTo(http, last.pre[last.call.self].ip_address, "SetUngroup")
              /\ http[Len(http)].name = "SetMultispkGroup"
              /\ Len(http) = Len(last.call.others) + 2

\* the first of three grouped speakers was unreachable in ungroup_all(): the
\* other two got their command and are ungrouped, the first is as before
C24_Witness ==
    /\ last.call.op = "ungroup_all"
    /\ GroupNames(last.pre) = <<"Old", "Old", "Old">>
    /\ last.call.nets = <<NetExc, NetText, NetText>>
    /\ Len(http) = 3
    /\ GroupNames(speakers) = <<"Old", "", "">>

\* The value of parameter name of request req
ParamNamed(req, name) ==
    LET ps == SelectSeq(req.params, LAMBDA q : q.name = name)
    IN  ps[1]

\* C25: in the group command that create_group issues, the main speaker's
\* address is not among the sub-speaker addresses, no address appears twice
\* among them, and the declared participant count is the number of distinct
\* speakers of the group.
C25_GroupMembersDistinct ==
    (last.call.op = "create_group" /\ http # <<>>) =>
        LET cmd == http[Len(http)]
            subs == SubAddresses(cmd)
        IN  /\ \A k \in 1..Len(subs) : subs[k] # cmd.ip
            /\ \A j, k \in 1..Len(subs) : subs[j] = subs[k] => j = k
            /\ ParamNamed(cmd, "spknum").cs =
                  IntToStr(Cardinality({cmd.ip} \cup {subs[k] : k \in 1..Len(subs)}))

\* C26: when group_with_speakers(G, others) returns a non-empty result, the
\* cached group name of self and of every speaker in others is empty or G.
C26_NoStaleGroupAfterSuccess ==
    (last.call.op = "group_with_speakers" /\ Truthy(last.ret)) =>
        \A i \in 1..Len(speakers) :
            (i = last.call.self \/ \E k \in 1..Len(last.call.others) : last.call.others[k] = i)
                => speakers[i].group_name \in {"", last.call.group_name}

(***************************************************************************)
(* The persistence specification: a list of speakers is saved with         *)
(* save_speakers_to_config and the file is then read back with             *)
(* load_speakers_from_config.                                              *)
(***************************************************************************)
MaxSaved == 2

\* speakers with a name or None for a name, a volume inside or outside the
\* range of set_volume, grouped or not
SavedSpeakers ==
    {SamsungWamSpeaker(a, n, "on", "off", v, g, "all", "aa:01") :
        a \in {Host1, Host2}, n \in {<<"K">>, NoneName}, v \in {0, 45}, g \in {"", "Old"}}

InitPersist ==
    /\ speakers \in SeqsUpTo(SavedSpeakers, MaxSaved)
    /\ http = <<>>
    /\ last = NoCall
    /\ setDone = FALSE
    /\ search = Idle
    /\ mpd = NoSync
    /\ streamer = NoStreams

Save(writable) ==
    /\ last.call.op = "init"
    /\ last' = [call |-> [op |-> "save_speakers_to_config", writable |-> writable],
                pre |-> speakers,
                ret |-> save_speakers_to_config(speakers,
                            [state |-> "missing", records |-> <<>>], writable),
                exc |-> ""]
    /\ UNCHANGED <<speakers, http, setDone, search, mpd, streamer>>

\* load_speakers_from_config on the file of the save before; the list it
\* returns takes the place of the list that was saved
Load ==
    /\ last.call.op = "save_speakers_to_config"
    /\ speakers' = load_speakers_from_config(last.ret)
    /\ last' = [call |-> [op |-> "load_speakers_from_config", file |-> last.ret],
                pre |-> speakers, ret |-> ResNone, exc |-> ""]
    /\ UNCHANGED <<http, setDone, search, mpd, streamer>>

NextPersist ==
    \/ \E writable \in BOOLEAN : Save(writable)
    \/ Load

SpecPersist == InitPersist /\ [][NextPersist]_vars

MaxThreads == 3

\* what mpd_client.status() reports as the player state; "error" is any
\* exception raised inside the try block
StatusReplies == {"play", "stop", "error"}

\* Thread.is_alive() of thread t of controller m; thread 0 is None
is_alive(m, t) == t # 0 /\ m.threads[t] # "done"

Alive(m) == {t \in 1..Len(m.threads) : is_alive(m, t)}

InitSync ==
    /\ speakers = <<NewSpeaker(Host1)>>
    /\ http = <<>>
    /\ last = NoCall
    /\ setDone = FALSE
    /\ search = Idle
    /\ mpd = WAMMPDController
    /\ streamer = NoStreams

connect_to_mpd(m, ok) ==
    IF ok THEN [m EXCEPT !.is_connected = TRUE, !.caller = "connect_to_mpd"]
    ELSE [m EXCEPT !.caller = "connect_to_mpd"]

disconnect_from_mpd(m) ==
    [m EXCEPT !.is_connected = FALSE, !.caller = "disconnect_from_mpd"]

start_sync_loop(m) ==
    IF ~m.is_connected THEN [m EXCEPT !.caller = "start_sync_loop"]
    ELSE IF m.sync_thread # 0 /\ is_alive(m, m.sync_thread)
    THEN [m EXCEPT !.caller = "start_sync_loop"]
    ELSE [m EXCEPT !.running = TRUE,
                   !.threads = Append(m.threads, "while"),
                   !.sync_thread = Len(m.threads) + 1,
                   !.caller = "start_sync_loop"]

\* stop_sync_loop up to the join: running is cleared, and the caller waits
\* for the thread if there is one
stop_sync_loop(m) ==
    [m EXCEPT !.running = FALSE,
              !.caller = IF m.sync_thread # 0 THEN "join" ELSE "stop_sync_loop"]

\* one statement of _sync_loop in thread t; reply is what status() does
_sync_loop(m, t, reply) ==
    CASE m.threads[t] = "while" ->
            [m EXCEPT !.threads[t] = IF m.running THEN "if" ELSE "done"]
      [] m.threads[t] = "if" ->
            [m EXCEPT !.threads[t] = IF m.is_connected THEN "status" ELSE "sleep"]
      [] m.threads[t] = "status" ->
            IF reply = "error" THEN [m EXCEPT !.threads[t] = "backoff"]
            ELSE [m EXCEPT !.last_mpd_status = reply, !.threads[t] = "sleep"]
      [] m.threads[t] \in {"sleep", "backoff"} ->
            [m EXCEPT !.threads[t] = "while"]

Calling == mpd.caller # "join"

SyncFrame == UNCHANGED <<speakers, http, last, setDone, search, streamer>>

ConnectToMpd(ok) ==
    /\ Calling
    /\ mpd' = connect_to_mpd(mpd, ok)
    /\ SyncFrame

DisconnectFromMpd ==
    /\ Calling
    /\ mpd' = disconnect_from_mpd(mpd)
    /\ SyncFrame

StartSyncLoop ==
    /\ Calling
    /\ Len(mpd.threads) < MaxThreads
    /\ mpd' = start_sync_loop(mpd)
    /\ SyncFrame

StopSyncLoop ==
    /\ Calling
    /\ mpd' = stop_sync_loop(mpd)
    /\ SyncFrame

\* join(timeout=2) returns because the thread has ended
Joined ==
    /\ mpd.caller = "join"
    /\ ~is_alive(mpd, mpd.sync_thread)
    /\ mpd' = [mpd EXCEPT !.caller = "stop_sync_loop"]
    /\ SyncFrame

\* join(timeout=2) returns because two seconds have passed: the thread is
\* inside status(), which has no timeout, or inside the five-second sleep
JoinTimedOut ==
    /\ mpd.caller = "join"
    /\ is_alive(mpd, mpd.sync_thread)
    /\ mpd.threads[mpd.sync_thread] \in {"status", "backoff"}
    /\ mpd' = [mpd EXCEPT !.caller = "stop_sync_loop"]
    /\ SyncFrame

SyncLoopStep(t, reply) ==
    /\ t <= Len(mpd.threads)
    /\ is_alive(mpd, t)
    /\ mpd' = _sync_loop(mpd, t, reply)
    /\ SyncFrame

NextSync ==
    \/ \E ok \in BOOLEAN : ConnectToMpd(ok)
    \/ DisconnectFromMpd
    \/ StartSyncLoop
    \/ StopSyncLoop
    \/ Joined
    \/ JoinTimedOut
    \/ \E t \in 1..MaxThreads, reply \in StatusReplies : SyncLoopStep(t, reply)

SpecSync == InitSync /\ [][NextSync]_vars

\* C29: at most one sync thread is alive at any time, and from the return of
\* a start_sync_loop call made while connected to MPD until the next call
\* the sync thread is alive and running is True, whatever calls of
\* start_sync_loop and stop_sync_loop came before.
C29_SyncThreadRunsAfterStart ==
    /\ Cardinality(Alive(mpd)) <= 1
    /\ (mpd.caller = "start_sync_loop" /\ mpd.is_connected) =>
          (mpd.running /\ is_alive(mpd, mpd.sync_thread))

(***************************************************************************)
(* The GStreamer streamer's table of streams (gstreamer_integration.py).   *)
(* Every stream has an HTTPServer of its own, served by a daemon thread;   *)
(* servers[k].serving says that the serve_forever loop of the k-th server  *)
(* created has been started and shutdown() has not been called on it.      *)
(* active_streams is the dictionary from speaker address to stream.        *)
(***************************************************************************)
\* the number of HTTP servers the streamer may create
MaxServers == 3

\* the ports the operating system may hand out
StreamPorts == {50000 + k : k \in 1..MaxServers}

\* the ports no server created so far is bound to (server_close is never
\* called, so a server keeps its port after shutdown)
FreePorts(g) == StreamPorts \ {g.servers[k].port : k \in 1..Len(g.servers)}

\* f"http://localhost:{port}/stream.wav"
StreamUrl(port) == <<"http://localhost:">> \o IntToStr(port) \o <<"/stream.wav">>

play_url(s, url, resume_flag, net) ==
    Outcome(s, <<Request(s, "SetUrlPlayback",
                         <<Param("cdata", "url", "empty", url),
                           Param("dec", "buffersize", "0", <<>>),
                           Param("dec", "seektime", "0", <<>>),
                           Param("dec", "resume", "", IntToStr(resume_flag))>>)>>,
            _send_command(net), "")

start_main_loop(g) ==
    IF ~g.gstreamer_available \/ g.running THEN g
    ELSE IF ~g.mainloop_thread
    THEN [g EXCEPT !.mainloop_thread = TRUE, !.running = TRUE]
    ELSE g

stop_main_loop(g) ==
    IF g.mainloop_thread /\ g.running THEN [g EXCEPT !.running = FALSE] ELSE g

\* the dictionary d with d[key] = value
DictSet(d, key, value) ==
    [k \in DOMAIN d \cup {key} |-> IF k = key THEN value ELSE d[k]]

\* the dictionary d after del d[key]
DictDel(d, key) == [k \in DOMAIN d \ {key} |-> d[k]]

\* server.shutdown() on the n-th server created
Shutdown(servers, n) == [servers EXCEPT ![n].serving = FALSE]

\* The result of a streamer method: the streamer afterwards, the requests
\* sent to the speaker and the value returned.
Streamed(g, reqs, ret) == [streamer |-> g, reqs |-> reqs, ret |-> ret]

\* pipeline_ok: the pipeline and its source bin could be created;
\* server_ok: HTTPServer could bind the port found; port: the port found
stream_to_speaker(g, speaker, pipeline_ok, server_ok, port, net) ==
    IF ~g.gstreamer_available THEN Streamed(g, <<>>, FALSE)
    ELSE
    LET g1 == IF ~g.running THEN start_main_loop(g) ELSE g
    IN  IF ~pipeline_ok \/ ~server_ok THEN Streamed(g1, <<>>, FALSE)
        ELSE
        LET n == Len(g1.servers) + 1
            started == Append(g1.servers,
                              [port |-> port, serving |-> TRUE,
                               speaker |-> speaker.ip_address])
            out == play_url(speaker, StreamUrl(port), 1, net)
        IN  IF Truthy(out.ret)
            THEN Streamed([g1 EXCEPT !.servers = started,
                                     !.active_streams =
                                         DictSet(g1.active_streams, speaker.ip_address,
                                                 [server |-> n, port |-> port])],
                          out.reqs, TRUE)
            ELSE Streamed([g1 EXCEPT !.servers = Shutdown(started, n)],
                          out.reqs, FALSE)

stop_streaming_to_speaker(g, speaker_ip) ==
    IF speaker_ip \in DOMAIN g.active_streams
    THEN Streamed([g EXCEPT !.servers =
                                Shutdown(g.servers, g.active_streams[speaker_ip].server),
                            !.active_streams = DictDel(g.active_streams, speaker_ip)],
                  <<>>, TRUE)
    ELSE Streamed(g, <<>>, FALSE)

RECURSIVE StopEach(_, _)
\* the loop of stop_all_streams over the keys, a sequence of addresses
StopEach(g, keys) ==
    IF keys = <<>> THEN g
    ELSE StopEach(stop_streaming_to_speaker(g, Head(keys)).streamer, Tail(keys))

RECURSIVE KeyList(_)
\* list(d.keys()), in some order
KeyList(S) ==
    IF S = {} THEN <<>>
    ELSE LET k == CHOOSE x \in S : TRUE IN <<k>> \o KeyList(S \ {k})

stop_all_streams(g) ==
    Streamed(stop_main_loop(StopEach(g, KeyList(DOMAIN g.active_streams))),
             <<>>, TRUE)

InitStream ==
    /\ speakers = <<NewSpeaker(Host1), NewSpeaker(Host2)>>
    /\ http = <<>>
    /\ last = NoCall
    /\ setDone = FALSE
    /\ search = Idle
    /\ mpd = NoSync
    /\ \E available \in BOOLEAN : streamer = GStreamerAudioStreamer(available)

StreamCall(call, out) ==
    /\ streamer' = out.streamer
    /\ http' = out.reqs
    /\ last' = [call |-> call, pre |-> streamer, ret |-> out.ret, exc |-> ""]
    /\ UNCHANGED <<speakers, setDone, search, mpd>>

StreamToSpeaker(i, pipeline_ok, server_ok, port, net) ==
    /\ Len(streamer.servers) < MaxServers
    /\ port \in FreePorts(streamer)
    /\ StreamCall([op |-> "stream_to_speaker", speaker |-> i,
                   pipeline_ok |-> pipeline_ok, server_ok |-> server_ok, net |-> net],
                  stream_to_speaker(streamer, speakers[i], pipeline_ok, server_ok,
                                    port, net))

StopStreamingToSpeaker(ip) ==
    StreamCall([op |-> "stop_streaming_to_speaker", speaker_ip |-> ip],
               stop_streaming_to_speaker(streamer, ip))

StopAllStreams ==
    StreamCall([op |-> "stop_all_streams"], stop_all_streams(streamer))

NextStream ==
    \/ \E i \in 1..2, pipeline_ok \in BOOLEAN, server_ok \in BOOLEAN,
          port \in StreamPorts, net \in {NetExc, NetText, NetJson(ResFalsy)} :
          StreamToSpeaker(i, pipeline_ok, server_ok, port, net)
    \/ \E ip \in {Host1, Host2, Host3} : StopStreamingToSpeaker(ip)
    \/ StopAllStreams

SpecStream == InitStream /\ [][NextStream]_vars

\* the servers started and not shut down
Serving(g) == {k \in 1..Len(g.servers) : g.servers[k].serving}

\* C30: every HTTP server started by stream_to_speaker is recorded in
\* active_streams under its speaker's address or has been shut down, and
\* after stop_all_streams active_streams is empty and no server is serving.
C30_ServersRecordedOrShutDown ==
    /\ \A k \in Serving(streamer) :
          LET ip == streamer.servers[k].speaker
          IN  /\ ip \in DOMAIN streamer.active_streams
              /\ streamer.active_streams[ip].server = k
    /\ last.call.op = "stop_all_streams" =>
          (DOMAIN streamer.active_streams = {} /\ Serving(streamer) = {})

=============================================================================
